---- MODULE Spec2Model ----
(***************************************************************************)
(* TemplateMaker (pisa/template_maker.py): the stage list built by         *)
(* init_stages from an ordered configuration, the checks it makes on each  *)
(* stage, and what a caller holding the TemplateMaker can see afterwards.  *)
(***************************************************************************)
EXTENDS Naturals, Sequences, FiniteSets

\* ------------------------------------------------------------------ bounds
MaxStages == 3      \* longest configuration drawn
MaxBuilds == 2      \* invocations of init_stages on one TemplateMaker

\* ------------------------------------------------------- strings and dicts
Keys == {"flux", "Flux", "osc", "OSC"}

\* str.lower() on the configuration keys of the model
lower(s) ==
    CASE s \in {"flux", "Flux", "FLUX"} -> "flux"
      [] s \in {"osc", "Osc", "OSC"} -> "osc"
      [] OTHER -> s

\* str.title() on the configuration keys of the model
title(s) ==
    CASE s \in {"flux", "Flux", "FLUX"} -> "Flux"
      [] s \in {"osc", "Osc", "OSC"} -> "Osc"
      [] OTHER -> s

Services == {"honda", "plain", "prob3", "hist", "smear", "nocls", "broken", "nonexistent"}

\* config.keys(): the keys of the ordered mapping, in declared order
keys(cfg) == [j \in 1..Len(cfg) |-> cfg[j].key]

KeyError == [service |-> "<KeyError>"]

\* config[name]: the record stored under exactly this key (case-sensitive)
GetItem(cfg, name) ==
    IF \E j \in 1..Len(cfg) : cfg[j].key = name
    THEN LET j == CHOOSE j \in 1..Len(cfg) : cfg[j].key = name
         IN  [service |-> cfg[j].service]
    ELSE KeyError

\* ------------------------------------------------ the stage implementations
Absent == "<absent>"      \* the attribute does not exist (hasattr is False)
None == [cls |-> <<>>]    \* no stage object

\* pisa.<category>.<service> can be imported
ModuleExists(category, service) == service # "nonexistent"

\* the module pisa.<category>.<service> has an attribute of this name
ClassExists(category, service, name) ==
    /\ service # "nocls"
    /\ name = (IF category = "flux" THEN "Flux" ELSE "Osc")

\* the constructor of the class raises
CtorRaises(service) == service = "broken"

\* the object the constructor of the class returns
Desc(service) ==
    CASE service = "honda" ->
           [isNoInput |-> TRUE, isInput |-> FALSE,
            input_binning |-> Absent, output_binning |-> "G1"]
      [] service = "plain" ->
           [isNoInput |-> TRUE, isInput |-> FALSE,
            input_binning |-> "G2", output_binning |-> Absent]
      [] service = "prob3" ->
           [isNoInput |-> FALSE, isInput |-> TRUE,
            input_binning |-> "G1", output_binning |-> "G1"]
      [] service = "hist" ->
           [isNoInput |-> FALSE, isInput |-> TRUE,
            input_binning |-> "G2", output_binning |-> Absent]
      [] OTHER ->
           [isNoInput |-> FALSE, isInput |-> TRUE,
            input_binning |-> Absent, output_binning |-> "G2"]

\* ------------------------------------------------------- init_stages, a step
ResolveErr_swallowed(category, service, name) == "none"

\* importlib.import_module and getattr(module, ...): the exception raised
ResolveErr(category, service, name) ==
    IF ~ModuleExists(category, service) THEN "ImportError"
    ELSE IF ~ClassExists(category, service, name) THEN "AttributeError"
    ELSE "none"

\* cls(**record): the stage object, created by the g-th call of init_stages
Instantiate(category, name, rec, g) ==
    [cls |-> <<category, rec.service, name>>, kwargs |-> rec, gen |-> g,
     isNoInput |-> Desc(rec.service).isNoInput,
     isInput |-> Desc(rec.service).isInput,
     input_binning |-> Desc(rec.service).input_binning,
     output_binning |-> Desc(rec.service).output_binning]

HeadOK_unchecked(stage) == TRUE

\* isinstance(stage, pisa.stage.NoInputStage)
HeadOK(stage) == stage.isNoInput

PositionOK_unchecked(stage) == TRUE

\* isinstance(stage, pisa.stage.InputStage)
PositionOK(stage) == stage.isInput

NeedsShapeCheck_always(stage) == TRUE

\* hasattr(stage, 'input_binning')
NeedsShapeCheck(stage) == stage.input_binning # Absent

PrevHasOutput_unchecked(stgs) == TRUE

\* hasattr(self.stages[-1], 'output_binning')
PrevHasOutput(stgs) == stgs[Len(stgs)].output_binning # Absent

ShapesEqual_unchecked(stage, stgs) == TRUE

\* stage.input_binning == self.stages[-1].output_binning
ShapesEqual(stage, stgs) == stage.input_binning = stgs[Len(stgs)].output_binning

\* the assertion that fails for this stage at index idx, or "none"
Check(stage, stgs, idx) ==
    IF idx = 0
    THEN (IF HeadOK(stage) THEN "none" ELSE "AssertionError:25")
    ELSE IF ~PositionOK(stage) THEN "AssertionError:27"
    ELSE IF ~NeedsShapeCheck(stage) THEN "none"
    ELSE IF ~PrevHasOutput(stgs) THEN "AssertionError:30"
    ELSE IF ~ShapesEqual(stage, stgs) THEN "AssertionError:33"
    ELSE "none"

\* what the two print statements write for this stage at index idx
Prints(stage, stgs, idx) ==
    IF /\ idx > 0
       /\ PositionOK(stage)
       /\ NeedsShapeCheck(stage)
       /\ PrevHasOutput(stgs)
    THEN <<stage.input_binning, stgs[Len(stgs)].output_binning>>
    ELSE <<>>

\* one pass of the loop body for the key stage_name at index idx
Body(cfg, stgs, stage_name, idx, g) ==
    LET category == lower(stage_name)
        rec == GetItem(cfg, category)
    IN  IF rec = KeyError
        THEN [err |-> "KeyError", stage |-> None, imp |-> <<>>, made |-> 0, out |-> <<>>]
        ELSE LET rerr == ResolveErr(category, rec.service, title(stage_name))
                 imp == <<category, rec.service>>
             IN  IF rerr # "none"
                 THEN [err |-> rerr, stage |-> None, imp |-> <<imp>>, made |-> 0, out |-> <<>>]
                 ELSE IF CtorRaises(rec.service)
                 THEN [err |-> "StageError", stage |-> None, imp |-> <<imp>>, made |-> 1,
                       out |-> <<>>]
                 ELSE LET st == Instantiate(category, title(stage_name), rec, g)
                      IN  [err |-> Check(st, stgs, idx), stage |-> st, imp |-> <<imp>>,
                           made |-> 1, out |-> Prints(st, stgs, idx)]

\* ------------------------------------------------------------------- state
VARIABLES
    config,     \* the configuration dict (self.config is a reference to it)
    stages,     \* self.stages
    pc,         \* "new", "loop" (inside init_stages), "idle", "dead", "exit"
    n,          \* keys consumed by the for loop; the loop variable i is n - 1
    stage,      \* the local variable stage of init_stages
    err,        \* the exception the current or last init_stages raised
    bound,      \* the caller holds a reference to the TemplateMaker
    gen,        \* calls of init_stages so far
    imported,   \* (category, service) pairs import_module was called with, this call
    made,       \* constructor calls of this call of init_stages
    printed,    \* what this call of init_stages has printed
    shown       \* what the caller printed from template_maker.stages

vars == <<config, stages, pc, n, stage, err, bound, gen, imported, made, printed, shown>>

InjKeys(m) == {ks \in [1..m -> Keys] : \A a, b \in 1..m : a # b => ks[a] # ks[b]}

\* the ordered mapping with these keys, in this order, and these services
MakeConfig(ks, ss) == [j \in 1..Len(ks) |-> [key |-> ks[j], service |-> ss[j]]]

NotShown == <<"<nothing>">>

Init ==
    /\ \E m \in 0..MaxStages :
          \E ks \in InjKeys(m), ss \in [1..m -> Services] : config = MakeConfig(ks, ss)
    /\ stages = <<>>
    /\ pc = "new"
    /\ n = 0
    /\ stage = None
    /\ err = "none"
    /\ bound = FALSE
    /\ gen = 0
    /\ imported = <<>>
    /\ made = 0
    /\ printed = <<>>
    /\ shown = NotShown

Enter_keeps_stages ==
    /\ stages' = stages
    /\ n' = 0
    /\ stage' = None
    /\ err' = "none"
    /\ gen' = gen + 1
    /\ imported' = <<>>
    /\ made' = 0
    /\ printed' = <<>>
    /\ pc' = "loop"

\* the first statement of init_stages
Enter ==
    /\ stages' = <<>>
    /\ n' = 0
    /\ stage' = None
    /\ err' = "none"
    /\ gen' = gen + 1
    /\ imported' = <<>>
    /\ made' = 0
    /\ printed' = <<>>
    /\ pc' = "loop"

\* TemplateMaker(config): __init__ up to the first statement of init_stages
New ==
    /\ pc = "new"
    /\ Enter
    /\ UNCHANGED <<config, bound, shown>>

\* one iteration of the for loop
LoopBody ==
    /\ pc = "loop"
    /\ n < Len(config)
    /\ LET r == Body(config, stages, keys(config)[n + 1], n, gen)
       IN  /\ n' = n + 1
           /\ stage' = r.stage
           /\ err' = r.err
           /\ imported' = imported \o r.imp
           /\ made' = made + r.made
           /\ printed' = printed \o r.out
           /\ stages' = IF r.err = "none" THEN Append(stages, r.stage) ELSE stages
           /\ pc' = IF r.err = "none" THEN "loop"
                    ELSE IF bound THEN "idle" ELSE "dead"
    /\ UNCHANGED <<config, bound, gen, shown>>

\* the loop is exhausted: init_stages (and __init__, if it called) returns
Return ==
    /\ pc = "loop"
    /\ n = Len(config)
    /\ pc' = "idle"
    /\ bound' = TRUE
    /\ UNCHANGED <<config, stages, n, stage, err, gen, imported, made, printed, shown>>

\* the caller invokes template_maker.init_stages() again
InitStagesCall ==
    /\ pc = "idle"
    /\ gen < MaxBuilds
    /\ Enter
    /\ UNCHANGED <<config, bound, shown>>

\* the caller changes an entry of the dict it passed to TemplateMaker
SetService ==
    /\ pc = "idle"
    /\ gen < MaxBuilds
    /\ \E j \in 1..Len(config), s \in Services :
          /\ s # config[j].service
          /\ config' = [config EXCEPT ![j].service = s]
    /\ UNCHANGED <<stages, pc, n, stage, err, bound, gen, imported, made, printed, shown>>

\* print template_maker.stages, the last statement of the script
PrintStages ==
    /\ pc = "idle"
    /\ shown' = stages
    /\ pc' = "exit"
    /\ UNCHANGED <<config, stages, n, stage, err, bound, gen, imported, made, printed>>

Next == New \/ LoopBody \/ Return \/ InitStagesCall \/ SetService \/ PrintStages

Spec == Init /\ [][Next]_vars

\* ------------------------------------------------- what the claims speak of
\* the category a configuration key names, whatever its letter case
CategoryOf(key) == IF key \in {"flux", "Flux", "FLUX"} THEN "flux" ELSE "osc"

\* the class that implements a category
ClassOf(category) == IF category = "flux" THEN "Flux" ELSE "Osc"

\* no implementation is registered for the pair
Unregistered(pair) ==
    \/ ~ModuleExists(pair[1], pair[2])
    \/ ~ClassExists(pair[1], pair[2], ClassOf(pair[1]))

\* the entry names a stage that can be resolved and constructed
Resolvable(e) ==
    /\ ~Unregistered(<<CategoryOf(e.key), e.service>>)
    /\ ~CtorRaises(e.service)

\* all entries resolvable, a source-stage first, transform-stages after it,
\* every declared input-shape equal to the predecessor's output-shape
ValidConfig(cfg) ==
    \A k \in 1..Len(cfg) :
        /\ Resolvable(cfg[k])
        /\ k = 1 => Desc(cfg[k].service).isNoInput
        /\ k > 1 => /\ Desc(cfg[k].service).isInput
                    /\ Desc(cfg[k].service).input_binning # Absent =>
                          Desc(cfg[k].service).input_binning =
                             Desc(cfg[k - 1].service).output_binning

\* the stage was built from this entry: its class and its own record
BuiltFrom(st, e) ==
    /\ st.cls = <<CategoryOf(e.key), e.service, ClassOf(CategoryOf(e.key))>>
    /\ st.kwargs = [service |-> e.service]

\* init_stages has raised
Raised == err # "none" /\ pc # "loop"

\* the last iteration instantiated a stage, at an index > 0; it is in `stage`,
\* and its predecessor is stages[n - 1]
LaterStage == n >= 2 /\ stage # None

\* the print statements reached so far, two lines each
ChecksPrinted(upto) ==
    Cardinality({k \in 2..upto : stages[k].input_binning # Absent})

\* ------------------------------------------------------------------ claims
\* C1 (as claimed): for every valid configuration of length N the build ends
\* with N stages, the stage at index k built from the k-th entry, in order.
\* (pc = "loop" and pc = "dead" are the states in which the configuration is
\* the one the current call of init_stages is reading.)
C1_ValidConfigBuildsInOrder ==
    ValidConfig(config) =>
        /\ pc # "dead"
        /\ pc = "loop" =>
              /\ err = "none"
              /\ Len(stages) = n
              /\ \A k \in 1..n : BuiltFrom(stages[k], config[k])

\* C2: the stage at index 0 of every stage list is a source-stage; when the
\* first entry instantiates to a stage that is not one, init_stages raises the
\* head assertion (line 25), nothing is appended, and a TemplateMaker under
\* construction is not handed to the caller.
C2_HeadMustBeSource ==
    /\ Len(stages) >= 1 => stages[1].isNoInput
    /\ (n = 1 /\ stage # None /\ ~stage.isNoInput) =>
          /\ err = "AssertionError:25"
          /\ pc # "loop"
          /\ stages = <<>>
          /\ gen = 1 => pc = "dead" /\ ~bound

C2_Witness ==
    /\ n = 1 /\ stage # None /\ ~stage.isNoInput /\ stage.isInput
    /\ err = "AssertionError:25" /\ pc = "dead"

\* C3 (as claimed): a configuration that places a source-stage at an index
\* i > 0 fails with the position assertion (line 27), whatever the stages at
\* the other indices are. Stated for construction (pc = "dead") and for
\* configurations all of whose entries are resolvable stages with lower-case
\* keys.
C3_SourceLaterAlwaysPositionError ==
    (/\ pc = "dead"
     /\ \A k \in 1..Len(config) :
           Resolvable(config[k]) /\ config[k].key = lower(config[k].key)
     /\ \E k \in 2..Len(config) : ~Desc(config[k].service).isInput)
    => err = "AssertionError:27"

\* C3 (amended): every stage at an index > 0 of a stage list is a
\* transform-stage; whenever the stage instantiated at an index i > 0 lacks
\* input capability, init_stages raises the position assertion (line 27) at
\* that index and does not append the stage.
C3_LaterMustBeTransform ==
    /\ \A k \in 2..Len(stages) : stages[k].isInput
    /\ (LaterStage /\ ~stage.isInput) =>
          /\ err = "AssertionError:27"
          /\ pc # "loop"
          /\ Len(stages) = n - 1

C3_Witness ==
    /\ LaterStage /\ stage.isNoInput /\ ~stage.isInput
    /\ err = "AssertionError:27" /\ Len(stages) = n - 1

\* C4: at an index i > 0 whose stage (a transform-stage) declares input-shape
\* S while stage i-1 declares output-shape T, the stage is appended exactly
\* when S = T; when S # T the shape assertion (line 33) is raised after S and T
\* were printed, and the stage is not appended; no stage list holds an
\* adjacent pair of differing declared shapes.
C4_ShapeChaining ==
    /\ \A k \in 2..Len(stages) :
          (/\ stages[k].input_binning # Absent
           /\ stages[k - 1].output_binning # Absent)
          => stages[k].input_binning = stages[k - 1].output_binning
    /\ (/\ LaterStage /\ stage.isInput
        /\ stage.input_binning # Absent
        /\ stages[n - 1].output_binning # Absent) =>
          LET S == stage.input_binning
              T == stages[n - 1].output_binning
          IN  /\ (err = "none") <=> (S = T)
              /\ Len(printed) >= 2
              /\ SubSeq(printed, Len(printed) - 1, Len(printed)) = <<S, T>>
              /\ S = T => Len(stages) >= n /\ stages[n] = stage
              /\ S # T => /\ err = "AssertionError:33"
                          /\ pc # "loop"
                          /\ Len(stages) = n - 1

C4_Witness ==
    /\ LaterStage /\ stage.isInput
    /\ stage.input_binning = "G2"
    /\ Len(stages) = n - 1
    /\ stages[n - 1].output_binning = "G1"
    /\ err = "AssertionError:33"
    /\ printed = <<"G2", "G1">>

\* C5: at an index i > 0 whose stage (a transform-stage) declares an
\* input-shape while stage i-1 declares no output-shape, init_stages raises the
\* assertion of line 30 (not that of line 33, and without printing the
\* shapes) and does not append the stage; no stage list holds such a pair.
C5_MissingOutputShape ==
    /\ \A k \in 2..Len(stages) :
          stages[k].input_binning # Absent => stages[k - 1].output_binning # Absent
    /\ (/\ LaterStage /\ stage.isInput
        /\ stage.input_binning # Absent
        /\ stages[n - 1].output_binning = Absent) =>
          /\ err = "AssertionError:30"
          /\ pc # "loop"
          /\ Len(stages) = n - 1
          /\ Len(printed) = 2 * ChecksPrinted(n - 1)

C5_Witness ==
    /\ LaterStage /\ stage.isInput
    /\ stage.input_binning # Absent
    /\ stages[n - 1].output_binning = Absent
    /\ err = "AssertionError:30"

\* C6: a transform-stage at an index i > 0 that declares no input-shape is
\* appended without being compared with stage i-1 (nothing is printed for
\* it), whatever stage i-1 declares; in every stage list a stage whose
\* input-shape differs from its predecessor's output-shape declares none.
C6_ShapeCheckOptIn ==
    /\ \A k \in 2..Len(stages) :
          stages[k].input_binning # stages[k - 1].output_binning
          => stages[k].input_binning = Absent
    /\ (LaterStage /\ stage.isInput /\ stage.input_binning = Absent) =>
          /\ err = "none"
          /\ Len(stages) >= n
          /\ stages[n] = stage
          /\ pc = "loop" => Len(printed) = 2 * ChecksPrinted(n)

C6_Witness ==
    /\ LaterStage /\ stage.isInput /\ stage.input_binning = Absent
    /\ n >= 3
    /\ Len(stages) = n
    /\ stages[n - 1].output_binning = "G2"
    /\ stages[n - 2].output_binning = Absent
    /\ stages[n - 1].input_binning = Absent

\* C7: when the pair init_stages resolves has no registered implementation
\* (no module, or no class in the module), it raises ImportError or
\* AttributeError at that entry: no constructor is called for the entry, no
\* stage is appended for it, and no later entry is resolved.
C7_UnresolvedStageFails ==
    \A k \in 1..Len(imported) :
        Unregistered(imported[k]) =>
            /\ k = Len(imported)
            /\ k = n
            /\ err = (IF ModuleExists(imported[k][1], imported[k][2])
                      THEN "AttributeError" ELSE "ImportError")
            /\ pc # "loop"
            /\ stage = None
            /\ Len(stages) = k - 1
            /\ made = k - 1

C7_Witness ==
    /\ n = 2 /\ Len(imported) = 2
    /\ Unregistered(imported[2])
    /\ err = "AttributeError"
    /\ Len(stages) = 1

\* C8 (as claimed): the first failure aborts the build, no later entry is
\* resolved or instantiated, and no stage list, complete or partial (in
\* particular none holding only the stages before the failure), can be seen by
\* the caller.
C8_FailFastAllOrNothing ==
    Raised =>
        /\ Len(imported) <= n
        /\ made <= n
        /\ Len(stages) = n - 1
        /\ ~(bound /\ stages # <<>>)

PipelineInvariant(stgs, g) ==
    \A k \in 1..Len(stgs) :
        /\ stgs[k].gen = g
        /\ k = 1 => stgs[k].isNoInput
        /\ k > 1 => /\ stgs[k].isInput
                    /\ stgs[k].input_binning # Absent =>
                          stgs[k].input_binning = stgs[k - 1].output_binning

C10_KeysCaseInsensitive ==
    (pc \in {"loop", "dead"} /\ n >= 1) =>
        /\ err # "KeyError"
        /\ Len(imported) = n
        /\ imported[n] = <<CategoryOf(config[n].key), config[n].service>>
        /\ stage # None => BuiltFrom(stage, config[n])

====
